---- MODULE Spec2Model ----
(***************************************************************************)
(* Model of the ddns-updater excerpts:                                     *)
(*   - the Cloudflare provider (New, validateSettings,                     *)
(*     createCloudflareClient, getRecordID, createRecord, Update),         *)
(*   - the status projection (Record.JSON) and the status handler,         *)
(*   - the public IP information provider dispatch (ValidateProvider,      *)
(*     newProvider).                                                       *)
(*                                                                         *)
(* Strings are sequences of pieces; a piece is a one-character string      *)
(* wherever the code inspects characters (credentials, IP text, numbers),  *)
(* and a whole literal where the code only concatenates it.  The empty     *)
(* string is << >>.                                                        *)
(***************************************************************************)
EXTENDS Integers, Sequences, FiniteSets, TLC

(***************************************************************************)
(* Bounds of the model.                                                    *)
(***************************************************************************)
\* most records of the provider's name (of both types together) that others
\* add at the vendor
MaxRemote == 2

\* most steps that take time (update attempts, waits) in a run of the status model
MaxSteps == 4

\* most public IP information providers named in a configuration
MaxNames == 2

(***************************************************************************)
(* Characters and numbers as text.                                         *)
(***************************************************************************)
Digits == <<"0", "1", "2", "3", "4", "5", "6", "7", "8", "9">>

HexDigits == Digits \o <<"a", "b", "c", "d", "e", "f">>

DigitChars == {Digits[i] : i \in 1..10}

LowerChars ==
    {"a", "b", "c", "d", "e", "f", "g", "h", "i", "j", "k", "l", "m",
     "n", "o", "p", "q", "r", "s", "t", "u", "v", "w", "x", "y", "z"}

UpperChars ==
    {"A", "B", "C", "D", "E", "F", "G", "H", "I", "J", "K", "L", "M",
     "N", "O", "P", "Q", "R", "S", "T", "U", "V", "W", "X", "Y", "Z"}

LetterChars == LowerChars \cup UpperChars

AlnumChars == LetterChars \cup DigitChars

\* strconv / fmt %d of a natural number, most significant digit first
RECURSIVE Dec(_)
Dec(n) == IF n < 10 THEN <<Digits[n + 1]>> ELSE Dec(n \div 10) \o <<Digits[(n % 10) + 1]>>

\* lower-case hexadecimal without leading zeros (netip appendHex)
RECURSIVE Hex(_)
Hex(n) == IF n < 16 THEN <<HexDigits[n + 1]>> ELSE Hex(n \div 16) \o <<HexDigits[(n % 16) + 1]>>

\* s contains t as a contiguous run of pieces
Contains(s, t) ==
    \E i \in 0..(Len(s) - Len(t)) : SubSeq(s, i + 1, i + Len(t)) = t

(***************************************************************************)
(* netip.Addr: the zero Addr, IPv4 (four octets), IPv6 (eight 16-bit       *)
(* groups).  Zoned and IPv4-mapped IPv6 addresses are outside the          *)
(* universe of addresses used here.                                        *)
(***************************************************************************)
ZeroAddr == [z |-> "0", a |-> << >>]

IP4(o1, o2, o3, o4) == [z |-> "4", a |-> <<o1, o2, o3, o4>>]

IP6(g) == [z |-> "6", a |-> g]

IsValid(ip) == ip.z # "0"

Is6(ip) == ip.z = "6"

InvalidIPText == <<"i", "n", "v", "a", "l", "i", "d", " ", "I", "P">>

\* length of the run of zero groups of a starting at index i (1-based)
RECURSIVE ZeroRun(_, _)
ZeroRun(a, i) == IF i > Len(a) \/ a[i] # 0 THEN 0 ELSE 1 + ZeroRun(a, i + 1)

\* first index of the longest run of at least two zero groups, 0 if none
ZeroStart(a) ==
    LET best == {i \in 1..Len(a) :
                    /\ ZeroRun(a, i) >= 2
                    /\ \A j \in 1..Len(a) : ZeroRun(a, j) <= ZeroRun(a, i)}
    IN  IF best = {} THEN 0 ELSE CHOOSE i \in best : \A j \in best : i <= j

RECURSIVE Emit6(_, _, _, _)
Emit6(a, i, zs, ze) ==
    IF i > Len(a) THEN << >>
    ELSE IF i = zs
         THEN <<":", ":">> \o (IF ze > Len(a) THEN << >>
                               ELSE Hex(a[ze]) \o Emit6(a, ze + 1, zs, ze))
         ELSE (IF i > 1 THEN <<":">> ELSE << >>) \o Hex(a[i]) \o Emit6(a, i + 1, zs, ze)

\* netip.Addr.String
AddrString(ip) ==
    CASE ip.z = "0" -> InvalidIPText
      [] ip.z = "4" -> Dec(ip.a[1]) \o <<".">> \o Dec(ip.a[2]) \o <<".">>
                       \o Dec(ip.a[3]) \o <<".">> \o Dec(ip.a[4])
      [] OTHER      -> LET zs == ZeroStart(ip.a)
                           ze == IF zs = 0 THEN 0 ELSE zs + ZeroRun(ip.a, zs)
                       IN  Emit6(ip.a, 1, zs, ze)

\* the pieces of s between occurrences of sep (strings.Split)
RECURSIVE Split(_, _, _)
Split(s, sep, cur) ==
    IF s = << >> THEN <<cur>>
    ELSE IF Head(s) = sep THEN <<cur>> \o Split(Tail(s), sep, << >>)
    ELSE Split(Tail(s), sep, Append(cur, Head(s)))

DigitValue(c) == CHOOSE v \in 0..9 : Digits[v + 1] = c

RECURSIVE DecValue(_)
DecValue(s) == IF s = << >> THEN 0 ELSE 10 * DecValue(SubSeq(s, 1, Len(s) - 1)) + DigitValue(s[Len(s)])

UpperHexDigits == Digits \o <<"A", "B", "C", "D", "E", "F">>

IsHexChar(c) == \E v \in 1..16 : HexDigits[v] = c \/ UpperHexDigits[v] = c

HexDigitValue(c) == (CHOOSE v \in 1..16 : HexDigits[v] = c \/ UpperHexDigits[v] = c) - 1

RECURSIVE HexValue(_)
HexValue(s) == IF s = << >> THEN 0 ELSE 16 * HexValue(SubSeq(s, 1, Len(s) - 1)) + HexDigitValue(s[Len(s)])

\* a decimal field of a dotted IPv4 address: 1 to 3 digits, no leading zero, at most 255
IsOctetText(f) ==
    /\ Len(f) \in 1..3
    /\ \A i \in 1..Len(f) : f[i] \in DigitChars
    /\ Len(f) > 1 => f[1] # "0"
    /\ DecValue(f) <= 255

\* a field of an IPv6 address: 1 to 4 hexadecimal digits
IsGroupText(f) == Len(f) \in 1..4 /\ \A i \in 1..Len(f) : IsHexChar(f[i])

parseIPv4(s) ==
    LET f == Split(s, ".", << >>)
    IN  IF Len(f) = 4 /\ \A i \in 1..4 : IsOctetText(f[i])
        THEN IP4(DecValue(f[1]), DecValue(f[2]), DecValue(f[3]), DecValue(f[4]))
        ELSE ZeroAddr

\* the fields of a colon-separated run of groups; the empty text has none
Groups(s) == IF s = << >> THEN << >> ELSE Split(s, ":", << >>)

parseIPv6(s) ==
    LET ell == {i \in 1..(Len(s) - 1) : s[i] = ":" /\ s[i + 1] = ":"}
    IN  IF ell = {}
        THEN LET f == Groups(s)
             IN  IF Len(f) = 8 /\ \A i \in 1..8 : IsGroupText(f[i])
                 THEN IP6([i \in 1..8 |-> HexValue(f[i])])
                 ELSE ZeroAddr
        ELSE IF Cardinality(ell) > 1 THEN ZeroAddr
        ELSE LET e == CHOOSE i \in ell : TRUE
                 l == Groups(SubSeq(s, 1, e - 1))
                 r == Groups(SubSeq(s, e + 2, Len(s)))
             IN  IF /\ Len(l) + Len(r) <= 7
                    /\ \A i \in 1..Len(l) : IsGroupText(l[i])
                    /\ \A i \in 1..Len(r) : IsGroupText(r[i])
                 THEN IP6([i \in 1..8 |->
                            IF i <= Len(l) THEN HexValue(l[i])
                            ELSE IF i > 8 - Len(r) THEN HexValue(r[i - (8 - Len(r))])
                            ELSE 0])
                 ELSE ZeroAddr

\* netip.ParseAddr; ZeroAddr stands for its error
ParseAddr(s) ==
    IF \E i \in 1..Len(s) : s[i] = ":" THEN parseIPv6(s)
    ELSE IF \E i \in 1..Len(s) : s[i] = "." THEN parseIPv4(s)
    ELSE ZeroAddr

(***************************************************************************)
(* Errors: the sentinel errors an error wraps (errors.Is) and its text.    *)
(***************************************************************************)
Nil == [nil |-> TRUE, is |-> {}, msg |-> << >>]

NewError(sentinels, text) == [nil |-> FALSE, is |-> sentinels, msg |-> text]

\* fmt.Errorf(prefix + "%w", e)
Wrap(prefix, e) == NewError(e.is, <<prefix>> \o e.msg)

ErrorIs(e, sentinel) == sentinel \in e.is

(***************************************************************************)
(* Cloudflare provider: settings and their validation.                     *)
(***************************************************************************)
NoProvider == [nil |-> TRUE]

Malformed == [malformed |-> TRUE]

Keys == {<< >>, <<"a", "B", "1">>, <<"a", "-", "1">>}

Tokens == {<< >>, <<"t", "K", "9">>}

Emails == {<< >>, <<"m", "e", "@", "x", ".", "i", "o">>, <<"m", "e", "@", "x">>}

UserServiceKeys == {<< >>, <<"v", "1", ".", "0", "-", "k">>, <<"v", "1", ".", "0">>}

ZoneIdentifiers == {<< >>, <<"z", "1">>}

TTLs == {0, 300}

Domains == {<< >>, <<"example.com">>}

Owner == <<"@">>

SettingsSet ==
    [key : Keys, token : Tokens, email : Emails, userServiceKey : UserServiceKeys,
     zoneIdentifier : ZoneIdentifiers, proxied : BOOLEAN, ttl : TTLs,
     domain : Domains, malformed : {FALSE}]

\* keyRegex ^[a-zA-Z0-9]+$
keyRegex(s) == Len(s) >= 1 /\ \A i \in 1..Len(s) : s[i] \in AlnumChars

\* userServiceKeyRegex ^v1\.0.+$
userServiceKeyRegex(s) == Len(s) >= 5 /\ SubSeq(s, 1, 4) = <<"v", "1", ".", "0">>

EmailLocalChars == AlnumChars \cup {"-", "_", ".", "+"}

EmailHostChars == AlnumChars \cup {"-", "_", "."}

\* regexEmail [a-zA-Z0-9-_.+]+@[a-zA-Z0-9-_.]+\.[a-zA-Z]{2,10}  (not anchored)
regexEmail(s) ==
    \E at \in 2..Len(s) : \E dot \in (at + 2)..(Len(s) - 2) :
        /\ s[at] = "@"
        /\ s[at - 1] \in EmailLocalChars
        /\ \A i \in (at + 1)..(dot - 1) : s[i] \in EmailHostChars
        /\ s[dot] = "."
        /\ s[dot + 1] \in LetterChars
        /\ s[dot + 2] \in LetterChars

\* utils.CheckDomain: an invalid domain is rejected
CheckDomain(domain) ==
    IF domain = << >> THEN NewError({"ErrDomainEmpty"}, <<"domain is empty">>) ELSE Nil

\* validateSettings without its check of the TTL
validateSettings_NoTTLCheck(domain, email, key, userServiceKey, zoneIdentifier, ttl) ==
    IF ~CheckDomain(domain).nil
    THEN NewError({"ErrDomainNotValid"} \cup CheckDomain(domain).is,
                  <<"ErrDomainNotValid", ": ">> \o CheckDomain(domain).msg)
    ELSE IF (email # << >> \/ key # << >>) /\ ~keyRegex(key)
    THEN NewError({"ErrKeyNotValid"}, <<"ErrKeyNotValid", ": key ">> \o key)
    ELSE IF (email # << >> \/ key # << >>) /\ ~regexEmail(email)
    THEN NewError({"ErrEmailNotValid"}, <<"ErrEmailNotValid", ": email ">> \o email)
    ELSE IF ~(email # << >> \/ key # << >>) /\ userServiceKey # << >>
            /\ ~userServiceKeyRegex(userServiceKey)
    THEN NewError({"ErrUserServiceKeyNotValid"},
                  <<"ErrUserServiceKeyNotValid", ": ">> \o userServiceKey)
    ELSE IF zoneIdentifier = << >>
    THEN NewError({"ErrZoneIdentifierNotSet"}, <<"ErrZoneIdentifierNotSet">>)
    ELSE Nil

validateSettings(domain, email, key, userServiceKey, zoneIdentifier, ttl) ==
    IF ~CheckDomain(domain).nil
    THEN NewError({"ErrDomainNotValid"} \cup CheckDomain(domain).is,
                  <<"ErrDomainNotValid", ": ">> \o CheckDomain(domain).msg)
    ELSE IF (email # << >> \/ key # << >>) /\ ~keyRegex(key)
    THEN NewError({"ErrKeyNotValid"}, <<"ErrKeyNotValid", ": key ">> \o key)
    ELSE IF (email # << >> \/ key # << >>) /\ ~regexEmail(email)
    THEN NewError({"ErrEmailNotValid"}, <<"ErrEmailNotValid", ": email ">> \o email)
    ELSE IF ~(email # << >> \/ key # << >>) /\ userServiceKey # << >>
            /\ ~userServiceKeyRegex(userServiceKey)
    THEN NewError({"ErrUserServiceKeyNotValid"},
                  <<"ErrUserServiceKeyNotValid", ": ">> \o userServiceKey)
    ELSE IF zoneIdentifier = << >>
    THEN NewError({"ErrZoneIdentifierNotSet"}, <<"ErrZoneIdentifierNotSet">>)
    ELSE IF ttl = 0
    THEN NewError({"ErrTTLNotSet"}, <<"ErrTTLNotSet">>)
    ELSE Nil

\* New: the provider and the error it returns for the raw settings data
NewProvider(d) ==
    IF d.malformed
    THEN [p |-> NoProvider, err |-> NewError({"json"}, <<"json: cannot unmarshal">>)]
    ELSE LET err == validateSettings(d.domain, d.email, d.key, d.userServiceKey,
                                     d.zoneIdentifier, d.ttl)
         IN  IF ~err.nil
             THEN [p |-> NoProvider,
                   err |-> Wrap("validating provider specific settings: ", err)]
             ELSE [p |-> [nil |-> FALSE, domain |-> d.domain, owner |-> Owner,
                          key |-> d.key, token |-> d.token, email |-> d.email,
                          userServiceKey |-> d.userServiceKey,
                          zoneIdentifier |-> d.zoneIdentifier,
                          proxied |-> d.proxied, ttl |-> d.ttl],
                   err |-> Nil]

(***************************************************************************)
(* Cloudflare provider: the vendor side and Update.                        *)
(***************************************************************************)
RecordTypes == {"A", "AAAA"}

Addrs4 == {IP4(10, 0, 0, 1), IP4(192, 168, 1, 255)}

Addrs6 == {IP6(<<8193, 3512, 0, 0, 0, 0, 0, 1>>), IP6(<<8193, 0, 0, 1, 0, 0, 0, 1>>)}

Addrs == Addrs4 \cup Addrs6

\* the text of every address of the model (AddrString, computed once)
AddrText == [ip \in Addrs \cup {ZeroAddr} |-> AddrString(ip)]

\* utils.BuildDomainName
BuildDomainName(p) == p.owner \o p.domain

recordTypeForIP(ip) == IF Is6(ip) THEN "AAAA" ELSE "A"

TransportError == NewError({"transport"}, <<"transport error">>)

createCloudflareClient(p) ==
    IF p.token # << >>
    THEN [auth |-> "token", err |-> Nil]
    ELSE IF p.email # << >> /\ p.key # << >>
    THEN [auth |-> "email+key", err |-> Nil]
    ELSE IF p.userServiceKey # << >>
    THEN [auth |-> "userServiceKey", err |-> Nil]
    ELSE [auth |-> "none", err |-> NewError({}, <<"no authentication method available">>)]

\* the vendor's answer to DNS.Records.List for one record type
ListResponse(rem, type, fails) ==
    IF fails THEN [err |-> TransportError, result |-> << >>]
    ELSE [err |-> Nil,
          result |-> [i \in 1..Len(rem[type]) |->
                        [id |-> [t |-> type, i |-> i], content |-> rem[type][i]]]]

NoID == [t |-> "", i |-> 0]

\* no lookup was made
NoLookup == [ran |-> FALSE, resp |-> [err |-> Nil, result |-> << >>]]

\* getRecordID that never reports the record as up to date
getRecordID_NeverUpToDate(resp, newIP) ==
    IF ~resp.err.nil
    THEN [identifier |-> NoID, upToDate |-> FALSE,
          err |-> Wrap("error listing DNS records: ", resp.err)]
    ELSE IF Len(resp.result) = 0
    THEN [identifier |-> NoID, upToDate |-> FALSE,
          err |-> NewError({"ErrReceivedNoResult"}, <<"ErrReceivedNoResult">>)]
    ELSE IF Len(resp.result) > 1
    THEN [identifier |-> NoID, upToDate |-> FALSE,
          err |-> NewError({"ErrResultsCountReceived"},
                           <<"ErrResultsCountReceived", ": ">> \o Dec(Len(resp.result))
                               \o <<" instead of 1">>)]
    ELSE [identifier |-> resp.result[1].id, upToDate |-> FALSE, err |-> Nil]

\* getRecordID that takes the first record when several match
getRecordID_PicksFirst(resp, newIP) ==
    IF ~resp.err.nil
    THEN [identifier |-> NoID, upToDate |-> FALSE,
          err |-> Wrap("error listing DNS records: ", resp.err)]
    ELSE IF Len(resp.result) = 0
    THEN [identifier |-> NoID, upToDate |-> FALSE,
          err |-> NewError({"ErrReceivedNoResult"}, <<"ErrReceivedNoResult">>)]
    ELSE IF resp.result[1].content = AddrText[newIP]
    THEN [identifier |-> resp.result[1].id, upToDate |-> TRUE, err |-> Nil]
    ELSE [identifier |-> resp.result[1].id, upToDate |-> FALSE, err |-> Nil]

getRecordID(resp, newIP) ==
    IF ~resp.err.nil
    THEN [identifier |-> NoID, upToDate |-> FALSE,
          err |-> Wrap("error listing DNS records: ", resp.err)]
    ELSE IF Len(resp.result) = 0
    THEN [identifier |-> NoID, upToDate |-> FALSE,
          err |-> NewError({"ErrReceivedNoResult"}, <<"ErrReceivedNoResult">>)]
    ELSE IF Len(resp.result) > 1
    THEN [identifier |-> NoID, upToDate |-> FALSE,
          err |-> NewError({"ErrResultsCountReceived"},
                           <<"ErrResultsCountReceived", ": ">> \o Dec(Len(resp.result))
                               \o <<" instead of 1">>)]
    ELSE IF resp.result[1].content = AddrText[newIP]
    THEN [identifier |-> resp.result[1].id, upToDate |-> TRUE, err |-> Nil]
    ELSE [identifier |-> resp.result[1].id, upToDate |-> FALSE, err |-> Nil]

ListCall(p, ip) ==
    [op |-> "list", zone |-> p.zoneIdentifier, type |-> recordTypeForIP(ip),
     name |-> BuildDomainName(p)]

\* createRecord's body with the proxy flag left at its zero value
CreateCall_NoProxied(p, ip) ==
    [op |-> "create", zone |-> p.zoneIdentifier, name |-> BuildDomainName(p),
     type |-> recordTypeForIP(ip), content |-> AddrText[ip],
     ttl |-> p.ttl, proxied |-> FALSE]

\* the body sent by createRecord
CreateCall(p, ip) ==
    [op |-> "create", zone |-> p.zoneIdentifier, name |-> BuildDomainName(p),
     type |-> recordTypeForIP(ip), content |-> AddrText[ip],
     ttl |-> p.ttl, proxied |-> p.proxied]

\* the body sent by DNS.Records.Update
UpdateCall(p, id, ip) ==
    [op |-> "update", id |-> id, zone |-> p.zoneIdentifier, name |-> BuildDomainName(p),
     type |-> recordTypeForIP(ip), content |-> AddrText[ip],
     ttl |-> p.ttl, proxied |-> p.proxied]

\* createRecord: the identifier and error it returns, and the vendor's records after
createRecord(p, rem, ip, fails) ==
    LET type == recordTypeForIP(ip)
    IN  IF fails
        THEN [recordID |-> NoID, err |-> Wrap("error creating DNS record: ", TransportError),
              remote |-> rem]
        ELSE [recordID |-> [t |-> type, i |-> Len(rem[type]) + 1], err |-> Nil,
              remote |-> [rem EXCEPT ![type] = Append(@, AddrText[ip])]]

\* the tail of Update: the in-place update of record id
UpdateInPlace(p, rem, ip, id, fails, out) ==
    IF fails
    THEN [out EXCEPT !.ret = [ip |-> ZeroAddr,
                              err |-> Wrap("updating DNS record: ", TransportError)],
                     !.calls = Append(@, UpdateCall(p, id, ip)),
                     !.remote = rem]
    ELSE [out EXCEPT !.ret = [ip |-> ip, err |-> Nil],
                     !.calls = Append(@, UpdateCall(p, id, ip)),
                     !.remote = [rem EXCEPT ![id.t][id.i] = AddrText[ip]]]

\* Provider.Update: what it returns, the vendor calls it issues in order, the
\* outcome of its lookup and the vendor's records afterwards
Update(p, rem, ip, listFails, createFails, updateFails) ==
    LET client == createCloudflareClient(p)
        got    == getRecordID(ListResponse(rem, recordTypeForIP(ip), listFails), ip)
        looked == [ret |-> [ip |-> ZeroAddr, err |-> Nil],
                   calls |-> <<ListCall(p, ip)>>,
                   lookup |-> [ran |-> TRUE,
                               resp |-> ListResponse(rem, recordTypeForIP(ip), listFails)],
                   remote |-> rem]
        made   == createRecord(p, rem, ip, createFails)
    IN  IF ~client.err.nil
        THEN [ret |-> [ip |-> ZeroAddr,
                       err |-> Wrap("failed to create cloudflare client: ", client.err)],
              calls |-> << >>,
              lookup |-> NoLookup,
              remote |-> rem]
        ELSE IF ErrorIs(got.err, "ErrReceivedNoResult")
        THEN IF ~made.err.nil
             THEN [looked EXCEPT !.ret = [ip |-> ZeroAddr,
                                          err |-> Wrap("creating record: ", made.err)],
                                 !.calls = Append(@, CreateCall(p, ip))]
             ELSE UpdateInPlace(p, made.remote, ip, made.recordID, updateFails,
                                [looked EXCEPT !.calls = Append(@, CreateCall(p, ip))])
        ELSE IF ~got.err.nil
        THEN [looked EXCEPT !.ret = [ip |-> ZeroAddr,
                                     err |-> Wrap("getting record id: ", got.err)]]
        ELSE IF got.upToDate
        THEN [looked EXCEPT !.ret = [ip |-> ip, err |-> Nil]]
        ELSE UpdateInPlace(p, rem, ip, got.identifier, updateFails, looked)

(***************************************************************************)
(* State: of the provider model, of the status model and of the public IP  *)
(* information provider model.                                             *)
(***************************************************************************)
VARIABLES
    data,      \* the settings last given to New
    p,         \* the Provider New returned, NoProvider while there is none
    newErr,    \* the error New returned
    remote,    \* the vendor's records of the provider's name, per record type
    reqIP,     \* the ip of the last Update
    ret,       \* what the last Update returned
    calls,     \* the vendor calls the last Update issued, in order
    lookup     \* whether the last Update listed the records, and the vendor's answer

pvars == <<data, p, newErr, remote, reqIP, ret, calls, lookup>>

VARIABLES
    db,        \* the Records of the database, in the order SelectAll returns them
    clock,     \* the wall clock, in half seconds
    steps,     \* steps that took time so far
    response,  \* the response the status handler wrote last, if nothing happened since
    seen       \* the last direct call of Record.JSON, if no Record changed since

svars == <<db, clock, steps, response, seen>>

VARIABLES
    infoNames,      \* the provider names of the configuration
    infoValidated,  \* what ValidateProvider returned for the first names
    infoBuilt,      \* what newProvider did for the first names
    infoPanicked    \* the process was aborted by a panic

ivars == <<infoNames, infoValidated, infoBuilt, infoPanicked>>

NoData == [none |-> TRUE, malformed |-> FALSE]

\* New is called once, with the raw settings of the configured record
New(d) ==
    /\ data = NoData
    /\ data' = d
    /\ p' = NewProvider(d).p
    /\ newErr' = NewProvider(d).err
    /\ UNCHANGED <<remote, reqIP, ret, calls, lookup>>
    /\ UNCHANGED <<svars, ivars>>

\* Update is called with ip; at most one of its vendor calls matters as failing,
\* since Update returns at the first failure
DoUpdate(ip, fault) ==
    /\ ~p.nil
    /\ \E r \in {Update(p, remote, ip, fault = "list", fault = "create", fault = "update")} :
           /\ reqIP' = ip
           /\ ret' = r.ret
           /\ calls' = r.calls
           /\ lookup' = r.lookup
           /\ remote' = r.remote
    /\ UNCHANGED <<data, p, newErr>>
    /\ UNCHANGED <<svars, ivars>>

\* somebody else adds a record of the same name at the vendor
RemoteAdd(type, ip) ==
    /\ ~p.nil
    /\ Len(remote["A"]) + Len(remote["AAAA"]) < MaxRemote
    /\ recordTypeForIP(ip) = type
    /\ remote' = [remote EXCEPT ![type] = Append(@, AddrText[ip])]
    /\ UNCHANGED <<data, p, newErr, reqIP, ret, calls, lookup>>
    /\ UNCHANGED <<svars, ivars>>

\* somebody else deletes the newest record of the same name at the vendor
RemoteDelete(type) ==
    /\ ~p.nil
    /\ Len(remote[type]) > 0
    /\ remote' = [remote EXCEPT ![type] = SubSeq(@, 1, Len(@) - 1)]
    /\ UNCHANGED <<data, p, newErr, reqIP, ret, calls, lookup>>
    /\ UNCHANGED <<svars, ivars>>

PNext ==
    \/ \E d \in SettingsSet \cup {Malformed} : New(d)
    \/ \E ip \in Addrs : \E fault \in {"none", "list", "create", "update"} :
          DoUpdate(ip, fault)
    \/ \E t \in RecordTypes : \E ip \in Addrs : RemoteAdd(t, ip)
    \/ \E t \in RecordTypes : RemoteDelete(t)

(***************************************************************************)
(* Records, their History and the status projection.  Times are counted    *)
(* in half seconds.                                                        *)
(***************************************************************************)
StatusAddrs == {IP4(192, 168, 1, 255), IP6(<<8193, 0, 0, 1, 0, 0, 0, 1>>)}

\* constants.UPTODATE and the other status values of a Record
UPTODATE == <<"up to date">>

SUCCESS == <<"success">>

FAIL == <<"failure">>

NotAvailable == <<"N/A">>

\* a Record as registered: no status, no message, an empty History
NewRecord(domain, ipVersion) ==
    [Provider |-> [domain |-> <<domain>>, owner |-> Owner,
                   name |-> <<"[domain: ", domain, " | provider: cloudflare]">>,
                   ipVersion |-> <<ipVersion>>],
     History |-> [currentIP |-> ZeroAddr, previousIPs |-> << >>,
                  succeeded |-> FALSE, lastSuccessTime |-> 0],
     Status |-> << >>,
     Message |-> << >>,
     Time |-> 0]

\* the collections of Records the database may be configured with
Configurations ==
    {<< >>,
     <<NewRecord("a.example", "ipv4 or ipv6")>>,
     <<NewRecord("a.example", "ipv4 or ipv6"), NewRecord("b.example", "ipv6")>>,
     <<NewRecord("b.example", "ipv6"), NewRecord("a.example", "ipv4 or ipv6")>>}

\* History.GetCurrentIP: the zero Addr while no address was recorded
GetCurrentIP(h) == h.currentIP

\* History.GetPreviousIPs: the prior addresses, oldest first
GetPreviousIPs(h) == h.previousIPs

\* History store: record(newIP, time)
RecordIP(h, newIP) ==
    IF newIP = h.currentIP THEN h
    ELSE [h EXCEPT !.currentIP = newIP,
                   !.previousIPs =
                       IF ~IsValid(h.currentIP) THEN @
                       ELSE IF @ # << >> /\ @[Len(@)] = h.currentIP THEN @
                       ELSE Append(@, h.currentIP)]

\* time.Duration.Round(time.Second) of d half seconds, in seconds: halves
\* round away from zero
RoundSecond(d) == (d + 1) \div 2

\* time.Duration.String of a whole number of seconds
DurationString(sec) ==
    IF sec < 60 THEN Dec(sec) \o <<"s">>
    ELSE IF sec < 3600 THEN Dec(sec \div 60) \o <<"m">> \o Dec(sec % 60) \o <<"s">>
    ELSE Dec(sec \div 3600) \o <<"h">> \o Dec((sec % 3600) \div 60) \o <<"m">>
         \o Dec(sec % 60) \o <<"s">>

\* History.GetDurationSinceSuccess(now)
GetDurationSinceSuccess(h, now) ==
    IF ~h.succeeded THEN <<"never">>
    ELSE DurationString(RoundSecond(now - h.lastSuccessTime))

\* the status string of Record.JSON; wall is the wall clock read by time.Since
StatusString(r, now, wall) ==
    LET message == IF r.Status = UPTODATE
                   THEN <<"no IP change for ">> \o GetDurationSinceSuccess(r.History, now)
                   ELSE r.Message
        shown   == IF message # << >> THEN <<"(">> \o message \o <<")">> ELSE message
    IN  IF r.Status = << >> THEN NotAvailable
        ELSE r.Status \o <<" ">> \o shown \o <<", ">>
             \o DurationString(RoundSecond(wall - r.Time)) \o <<" ago">>

\* Record.JSON(now), run while the wall clock reads wall
JSON(r, now, wall) ==
    [Domain |-> r.Provider.domain,
     Owner |-> r.Provider.owner,
     Provider |-> r.Provider.name,
     IPVersion |-> r.Provider.ipVersion,
     Status |-> StatusString(r, now, wall),
     CurrentIP |-> AddrString(GetCurrentIP(r.History)),
     PreviousIPs |-> GetPreviousIPs(r.History)]

\* netip.Addr.MarshalText: the zero Addr is the empty text
MarshalText(ip) == IF IsValid(ip) THEN AddrString(ip) ELSE << >>

\* encoding/json of a models.Stat
EncodeStat(stat) ==
    [domain |-> stat.Domain, owner |-> stat.Owner, provider |-> stat.Provider,
     ip_version |-> stat.IPVersion, status |-> stat.Status,
     current_ip |-> stat.CurrentIP,
     previous_ips |-> [k \in 1..Len(stat.PreviousIPs) |-> MarshalText(stat.PreviousIPs[k])]]

\* time.Time.Unix of a time in half seconds
Unix(t) == t \div 2

\* handlers.status filling the entries from the last record to the first
status_Reversed(records, now, wall) ==
    LET stats == [i \in 1..Len(records) |->
                    EncodeStat(JSON(records[Len(records) + 1 - i], now, wall))]
    IN  [written |-> TRUE, success |-> TRUE, status |-> <<"success">>,
         message |-> <<"Records retrieved successfully">>,
         data |-> stats, count |-> Len(stats), timestamp |-> Unix(now), now |-> now]

\* handlers.status: the response written for the records, with now read
\* from h.timeNow and the loop over the records run while the wall clock
\* reads wall
status(records, now, wall) ==
    LET stats == [i \in 1..Len(records) |-> EncodeStat(JSON(records[i], now, wall))]
    IN  [written |-> TRUE, success |-> TRUE, status |-> <<"success">>,
         message |-> <<"Records retrieved successfully">>,
         data |-> stats, count |-> Len(stats), timestamp |-> Unix(now), now |-> now]

(***************************************************************************)
(* Public IP information providers.                                        *)
(***************************************************************************)
Ipinfo == "ipinfo"

IP2Location == "ip2location"

ListProviders == <<Ipinfo, IP2Location>>

\* provider names a configuration may hold
ProviderNames == {Ipinfo, IP2Location, "", "IPinfo", "google"}

ValidateProvider(provider) ==
    IF \E i \in 1..Len(ListProviders) : provider = ListProviders[i] THEN Nil
    ELSE NewError({"ErrUnknownProvider"},
                  <<"unknown public IP information provider", ": ", provider>>)

\* newProvider: the implementation it returns, or the panic it raises
newProvider(providerName) ==
    CASE providerName = Ipinfo      -> [panic |-> FALSE, impl |-> "ipinfo", msg |-> << >>]
      [] providerName = IP2Location -> [panic |-> FALSE, impl |-> "ip2location", msg |-> << >>]
      [] OTHER -> [panic |-> TRUE, impl |-> "",
                   msg |-> <<"provider ", providerName, " not implemented">>]

(***************************************************************************)
(* Operations of the status model.                                         *)
(***************************************************************************)
NoResponse == [written |-> FALSE]

NoCall == [called |-> FALSE]

TickSteps == {1, 119}

\* time passes
Tick(d) ==
    /\ steps < MaxSteps
    /\ steps' = steps + 1
    /\ clock' = clock + d
    /\ response' = NoResponse
    /\ UNCHANGED <<db, seen>>
    /\ UNCHANGED <<pvars, ivars>>

\* the Record after an update attempt that ended at time t with the provider
\* confirming address ip
Succeeded(r, ip, t) ==
    [r EXCEPT !.Status = IF ip = r.History.currentIP THEN UPTODATE ELSE SUCCESS,
              !.Message = << >>,
              !.Time = t,
              !.History = [RecordIP(@, ip) EXCEPT !.succeeded = TRUE,
                                                  !.lastSuccessTime = t]]

\* the Record after an update attempt that failed at time t
Failed(r, t) ==
    [r EXCEPT !.Status = FAIL, !.Message = <<"updating DNS record: transport error">>,
              !.Time = t]

\* an update attempt on Record i takes half a second and succeeds with ip
AttemptSucceeds(i, ip) ==
    /\ steps < MaxSteps
    /\ steps' = steps + 1
    /\ clock' = clock + 1
    /\ db' = [db EXCEPT ![i] = Succeeded(@, ip, clock + 1)]
    /\ response' = NoResponse
    /\ seen' = NoCall
    /\ UNCHANGED <<pvars, ivars>>

\* an update attempt on Record i takes half a second and fails
AttemptFails(i) ==
    /\ steps < MaxSteps
    /\ steps' = steps + 1
    /\ clock' = clock + 1
    /\ db' = [db EXCEPT ![i] = Failed(@, clock + 1)]
    /\ response' = NoResponse
    /\ seen' = NoCall
    /\ UNCHANGED <<pvars, ivars>>

\* GET status: the handler reads the records and the time, and its loop over
\* the records runs d half seconds later
StatusRequest(d) ==
    /\ d > 0 => steps < MaxSteps
    /\ steps' = IF d > 0 THEN steps + 1 ELSE steps
    /\ clock' = clock + d
    /\ response' = status(db, clock, clock + d)
    /\ seen' = NoCall
    /\ UNCHANGED db
    /\ UNCHANGED <<pvars, ivars>>

\* a direct call of Record.JSON(now) on Record i
JSONCall(i, now) ==
    /\ seen' = [called |-> TRUE, i |-> i, now |-> now, stat |-> JSON(db[i], now, clock)]
    /\ response' = NoResponse
    /\ UNCHANGED <<db, clock, steps>>
    /\ UNCHANGED <<pvars, ivars>>

SNext ==
    \/ \E d \in TickSteps : Tick(d)
    \/ \E i \in DOMAIN db : \E ip \in StatusAddrs : AttemptSucceeds(i, ip)
    \/ \E i \in DOMAIN db : AttemptFails(i)
    \/ \E d \in {0, 1} : StatusRequest(d)
    \/ \E i \in DOMAIN db :
          \E now \in {clock} \cup (IF seen.called THEN {seen.now} ELSE {}) : JSONCall(i, now)

(***************************************************************************)
(* Operations of the public IP information provider model.                 *)
(***************************************************************************)
RECURSIVE SeqsUpTo(_, _)
SeqsUpTo(S, n) ==
    IF n = 0 THEN {<< >>}
    ELSE SeqsUpTo(S, n - 1) \cup {Append(q, x) : q \in SeqsUpTo(S, n - 1), x \in S}

\* the next name of the configuration is validated
ValidateNext ==
    /\ ~infoPanicked
    /\ Len(infoValidated) < Len(infoNames)
    /\ infoValidated' = Append(infoValidated, ValidateProvider(infoNames[Len(infoValidated) + 1]))
    /\ UNCHANGED <<infoNames, infoBuilt, infoPanicked>>
    /\ UNCHANGED <<pvars, svars>>

\* the next name of the configuration is dispatched through newProvider
NewNext ==
    /\ ~infoPanicked
    /\ Len(infoBuilt) < Len(infoNames)
    /\ infoBuilt' = Append(infoBuilt, newProvider(infoNames[Len(infoBuilt) + 1]))
    /\ infoPanicked' = newProvider(infoNames[Len(infoBuilt) + 1]).panic
    /\ UNCHANGED <<infoNames, infoValidated>>
    /\ UNCHANGED <<pvars, svars>>

INext == ValidateNext \/ NewNext

(***************************************************************************)
(* Specifications: one per part of the program, the other parts at rest.   *)
(***************************************************************************)
vars == <<pvars, svars, ivars>>

\* the Cloudflare provider
Init ==
    /\ data = NoData
    /\ p = NoProvider
    /\ newErr = Nil
    /\ remote = [t \in RecordTypes |-> << >>]
    /\ reqIP = ZeroAddr
    /\ ret = [ip |-> ZeroAddr, err |-> Nil]
    /\ calls = << >>
    /\ lookup = NoLookup
    /\ db = << >>
    /\ clock = 0
    /\ steps = 0
    /\ response = NoResponse
    /\ seen = NoCall
    /\ infoNames = << >>
    /\ infoValidated = << >>
    /\ infoBuilt = << >>
    /\ infoPanicked = FALSE

Spec == Init /\ [][PNext]_vars

\* the Records and the status handler
InitStatus ==
    /\ data = NoData
    /\ p = NoProvider
    /\ newErr = Nil
    /\ remote = [t \in RecordTypes |-> << >>]
    /\ reqIP = ZeroAddr
    /\ ret = [ip |-> ZeroAddr, err |-> Nil]
    /\ calls = << >>
    /\ lookup = NoLookup
    /\ db \in Configurations
    /\ clock = 0
    /\ steps = 0
    /\ response = NoResponse
    /\ seen = NoCall
    /\ infoNames = << >>
    /\ infoValidated = << >>
    /\ infoBuilt = << >>
    /\ infoPanicked = FALSE

SpecStatus == InitStatus /\ [][SNext]_vars

\* the public IP information providers
InitInfo ==
    /\ data = NoData
    /\ p = NoProvider
    /\ newErr = Nil
    /\ remote = [t \in RecordTypes |-> << >>]
    /\ reqIP = ZeroAddr
    /\ ret = [ip |-> ZeroAddr, err |-> Nil]
    /\ calls = << >>
    /\ lookup = NoLookup
    /\ db = << >>
    /\ clock = 0
    /\ steps = 0
    /\ response = NoResponse
    /\ seen = NoCall
    /\ infoNames \in SeqsUpTo(ProviderNames, MaxNames)
    /\ infoValidated = << >>
    /\ infoBuilt = << >>
    /\ infoPanicked = FALSE

SpecInfo == InitInfo /\ [][INext]_vars

(***************************************************************************)
(* Claims about the Cloudflare provider.                                   *)
(***************************************************************************)
\* the last Update listed the records and the vendor answered with n of them
Listed == lookup.ran /\ lookup.resp.err.nil

CallsOf(op) == {i \in DOMAIN calls : calls[i].op = op}

FoundOne == Listed /\ Len(lookup.resp.result) = 1

FoundOneEqual == FoundOne /\ lookup.resp.result[1].content = AddrText[reqIP]

FoundOneDiffering == FoundOne /\ lookup.resp.result[1].content # AddrText[reqIP]

FoundNone == Listed /\ Len(lookup.resp.result) = 0

FoundSeveral == Listed /\ Len(lookup.resp.result) > 1

\* C1: when the lookup finds exactly one record whose content equals the
\* requested IP, Update returns that IP with a nil error and issues neither a
\* create nor an in-place update call.
C1_UpToDateNoWrite ==
    FoundOneEqual =>
        /\ ret.ip = reqIP
        /\ ret.err.nil
        /\ CallsOf("create") = {}
        /\ CallsOf("update") = {}

C1_Witness == FoundOneEqual /\ ret.ip = reqIP /\ IsValid(reqIP)

\* C2: when the lookup finds no record, Update issues exactly one creation call
\* with the requested IP, the type of the IP's family (A for IPv4, AAAA for
\* IPv6), the configured TTL and proxy flag, and returns the requested IP with
\* a nil error if no vendor call fails.
C2_NotFoundCreates ==
    FoundNone =>
        /\ Cardinality(CallsOf("create")) = 1
        /\ \A i \in CallsOf("create") :
              /\ calls[i].content = AddrText[reqIP]
              /\ calls[i].type = (IF reqIP.z = "4" THEN "A" ELSE "AAAA")
              /\ calls[i].ttl = data.ttl
              /\ calls[i].proxied = data.proxied
              /\ calls[i].zone = data.zoneIdentifier
        /\ (~ErrorIs(ret.err, "transport") => ret.ip = reqIP /\ ret.err.nil)

C2_Witness ==
    /\ FoundNone
    /\ ret.ip = reqIP
    /\ ret.err.nil
    /\ Is6(reqIP)
    /\ data.proxied

\* C3: when the lookup returns more than one record, Update returns a non-nil
\* error that mentions the number of records received, returns no valid IP and
\* issues neither a create nor an in-place update call.
C3_AmbiguousFails ==
    FoundSeveral =>
        /\ ~ret.err.nil
        /\ Contains(ret.err.msg, Dec(Len(lookup.resp.result)))
        /\ ~IsValid(ret.ip)
        /\ CallsOf("create") = {}
        /\ CallsOf("update") = {}

C3_Witness == FoundSeveral /\ ~ret.err.nil /\ Len(lookup.resp.result) = 2

\* C4 as stated: an in-place update call is issued only when the lookup found
\* exactly one record whose content differs from the requested IP.
C4_UpdateOnlyWhenDiffering == CallsOf("update") # {} => FoundOneDiffering

\* the creation call of the last Update succeeded
Created == CallsOf("create") # {} /\ ~Contains(ret.err.msg, <<"creating record: ">>)

\* C4 amended: an in-place update call is issued only when the lookup found
\* exactly one record whose content differs from the requested IP, or when it
\* found none and the creation call succeeded (the new record is then updated
\* in place); never after an ambiguous, already equal or failed lookup or a
\* failed creation.
C4_UpdateOnlyWhenDifferingOrCreated ==
    CallsOf("update") # {} <=> (FoundOneDiffering \/ (FoundNone /\ Created))

C4_Witness == CallsOf("update") # {} /\ FoundNone /\ Created /\ ret.err.nil

\* C5: New returns a Provider (nil error) only if zone_identifier is non-empty
\* and ttl is greater than 0; with an empty zone identifier or a zero TTL it
\* returns no Provider and a non-nil error, so no call of Update carries an
\* empty zone identifier or a zero TTL.
C5_ZoneAndTTLValidated ==
    /\ data # NoData =>
          /\ newErr.nil <=> ~p.nil
          /\ ~p.nil => data.zoneIdentifier # << >> /\ data.ttl > 0
          /\ (~data.malformed /\ (data.zoneIdentifier = << >> \/ data.ttl = 0))
                => p.nil /\ ~newErr.nil
    /\ \A i \in DOMAIN calls :
          /\ calls[i].zone # << >>
          /\ calls[i].op \in {"create", "update"} => calls[i].ttl > 0

C5_Witness ==
    /\ data # NoData
    /\ ~data.malformed
    /\ data.zoneIdentifier # << >>
    /\ data.ttl = 0
    /\ ErrorIs(newErr, "ErrTTLNotSet")
    /\ p.nil

\* the credential modes of the configuration schema
TokenMode(q) == q.token # << >>

EmailKeyMode(q) == keyRegex(q.key) /\ regexEmail(q.email)

UserServiceKeyMode(q) == userServiceKeyRegex(q.userServiceKey)

\* C6: every Provider New returns has a satisfiable credential mode, so Update
\* never fails because no authentication method is available.
C6_CredentialModeSatisfiable ==
    ~p.nil =>
        /\ TokenMode(p) \/ EmailKeyMode(p) \/ UserServiceKeyMode(p)
        /\ ~Contains(ret.err.msg, <<"no authentication method available">>)

(***************************************************************************)
(* Claims about the status projection.                                     *)
(***************************************************************************)
CurrentOf(i) == db[i].History.currentIP

PreviousOf(i) == db[i].History.previousIPs

\* the text the claims expect for the current IP of Record i
ExpectedCurrentIP(i) == IF IsValid(CurrentOf(i)) THEN AddrString(CurrentOf(i)) ELSE << >>

\* C7: in the status projection of a Record, current_ip is the textual form of
\* the History's current IP when one is set, and the empty string when the
\* History has no current IP.
C7_CurrentIPTextOrEmpty ==
    /\ seen.called => seen.stat.CurrentIP = ExpectedCurrentIP(seen.i)
    /\ response.written =>
          \A i \in DOMAIN response.data :
              response.data[i].current_ip = ExpectedCurrentIP(i)

\* C8: for every Record with a set current IP, Record.JSON yields a Stat whose
\* current_ip decodes back to the History's current IP and whose previous_ips
\* is the History's previous-IP sequence, same elements in the same order; and
\* the status handler emits one such entry per record of SelectAll, in the
\* same order, with count equal to their number.
C8_RoundTrip ==
    /\ (seen.called /\ IsValid(CurrentOf(seen.i))) =>
          /\ ParseAddr(seen.stat.CurrentIP) = CurrentOf(seen.i)
          /\ seen.stat.PreviousIPs = PreviousOf(seen.i)
    /\ response.written =>
          /\ Len(response.data) = Len(db)
          /\ response.count = Len(db)
          /\ \A i \in DOMAIN db :
                /\ response.data[i].domain = db[i].Provider.domain
                /\ IsValid(CurrentOf(i)) =>
                      /\ ParseAddr(response.data[i].current_ip) = CurrentOf(i)
                      /\ Len(response.data[i].previous_ips) = Len(PreviousOf(i))
                      /\ \A k \in DOMAIN PreviousOf(i) :
                            ParseAddr(response.data[i].previous_ips[k]) = PreviousOf(i)[k]

C8_Witness ==
    /\ response.written
    /\ Len(db) = 2
    /\ Len(PreviousOf(1)) = 2
    /\ PreviousOf(1)[1] # PreviousOf(1)[2]
    /\ IsValid(CurrentOf(2))

\* C10: Record.JSON(now) is a function of the record and of now alone: two
\* calls on the same record state with the same now return identical Stat
\* values, whatever the wall clock reads when each call runs.
C10_Deterministic ==
    [][(/\ seen.called
        /\ seen'.called
        /\ db' = db
        /\ seen'.i = seen.i
        /\ seen'.now = seen.now) => seen'.stat = seen.stat]_vars

(***************************************************************************)
(* Claims about the public IP information providers.                       *)
(***************************************************************************)
\* C9: no provider name causes a runtime abort: newProvider returns an
\* implementation or the name is rejected by ValidateProvider, newProvider
\* panics for no name, and ValidateProvider accepts exactly the names
\* newProvider can construct.
C9_UnknownNameNeverAborts ==
    /\ ~infoPanicked
    /\ \A k \in DOMAIN infoBuilt : ~infoBuilt[k].panic
    /\ \A k \in DOMAIN infoBuilt \cap DOMAIN infoValidated :
          infoValidated[k].nil <=> ~infoBuilt[k].panic

====
